---- MODULE Spec2Model ----
(***************************************************************************)
(* parablock: registry, content cache, generate/verify retry loop and the  *)
(* orchestration pass (process_module / process_package), as one state     *)
(* machine.  Names are sequences of characters so that the prefix tests of *)
(* the source (str.startswith) are computed, not assumed.                  *)
(***************************************************************************)
EXTENDS Integers, Sequences, FiniteSets, TLC

VARIABLES
    registry,          \* FunctionRegistry._registry : full name -> FunctionMetadata
    implementations,   \* FunctionRegistry._implementations : full name -> text
    needs_generation,  \* FunctionRegistry._needs_generation : full name -> bool
    cache,             \* Cache._cache : full name -> {hash, implementation}
    loaded_modules,    \* Cache._loaded_modules
    sys_modules,       \* sys.modules, restricted to the modules of the model
    disk,              \* .parablock/cache : file name -> persisted partition
    pc,                \* where the processor is
    pass,              \* locals of process_module
    gen,               \* locals of _generate_and_test and generate_implementation
    pkg,               \* locals of process_package
    obs,               \* probes: what an observer of the run has counted
    ops,               \* number of passes, reloads and restarts started so far
    redeclared,        \* number of declarations re-run so far
    events,            \* the observer's queue of change events (module names)
    reconciling,       \* the namespaces whose change handler is in progress
    disp,              \* probe: the Dispatcher or inspection call just made
    test_run           \* probe: the TestRunner.run_test call just made

vars == <<registry, implementations, needs_generation, cache, loaded_modules,
          sys_modules, disk, pc, pass, gen, pkg, obs, ops, redeclared,
          events, reconciling, disp, test_run>>

----------------------------------------------------------------------------
(* Bounds of the model.                                                    *)

MaxOps == 2
MaxRedeclared == 1

----------------------------------------------------------------------------
(* Program constants.                                                      *)

max_attempts == 3
max_retries == 3

----------------------------------------------------------------------------
(* Values.                                                                 *)

None == "None"
Dot == "."
EmptyDict == <<>>

Put(d, k, v) == [x \in (DOMAIN d) \cup {k} |-> IF x = k THEN v ELSE d[x]]
Restrict(d, S) == [x \in S |-> d[x]]
Update(d, e) == [x \in (DOMAIN d) \cup (DOMAIN e) |-> IF x \in DOMAIN e THEN e[x] ELSE d[x]]

\* str.startswith
StartsWith(s, prefix) ==
    /\ Len(prefix) <= Len(s)
    /\ SubSeq(s, 1, Len(prefix)) = prefix

\* Python truthiness of an Optional[str]
Truthy(text) == text # None /\ text # ""

PackageName == <<"p">>
ModuleM == <<"p", ".", "m">>
ModuleN == <<"p", ".", "n">>
ModuleNames == {ModuleM, ModuleN}
\* a sub-namespace of p.m
ModuleS == <<"p", ".", "m", ".", "s">>

\* The declarations a module's code may contain: (module, name) pairs, in
\* the order the files declare them.  Module p.m declares f and g, module
\* p.m.s declares h, module p.n and the package itself declare nothing.
DeclOrder == << <<ModuleM, <<"f">>>>, <<ModuleM, <<"g">>>>, <<ModuleS, <<"h">>>> >>
AllDecls == {DeclOrder[i] : i \in 1..Len(DeclOrder)}
\* the declarations of the command-line runs
Decls == {d \in AllDecls : d[1] = ModuleM}

\* FunctionMetadata.get_full_name
get_full_name(module, name) == module \o <<Dot>> \o name

FullNames == {get_full_name(d[1], d[2]) : d \in AllDecls}

Docstrings == {"d1", "d2"}
Signatures == {"(fn, n)"}
\* A function's source either parses (and carries its assertion block) or
\* is text ast.parse rejects (the source of an indented, nested definition).
Sources == {"def:assert", "indented"}

\* What the oracle's response is after _extract_code: an empty body, a body
\* that violates the assertions, a body that satisfies them.
Candidates == {"", "bad", "good"}
\* str(e) of a failed oracle call
OracleErrors == {"timeout"}

\* the frozen flag goes into the hash as well
get_hash_frozen_too(metadata) ==
    "md5:" \o metadata.docstring \o "|" \o metadata.signature
           \o (IF metadata.frozen THEN "|frozen" ELSE "")

\* FunctionMetadata.get_hash: md5 of "docstring|signature"
get_hash(metadata) == "md5:" \o metadata.docstring \o "|" \o metadata.signature

\* the signature is left out of the hash
get_function_hash_docstring_only(docstring, signature) == "md5:" \o docstring

\* utils.get_function_hash
get_function_hash(docstring, signature) == "md5:" \o docstring \o "|" \o signature

----------------------------------------------------------------------------
(* The in-process state as one record, so that the calls a handler makes   *)
(* compose as functions from state to state.                               *)

Heap == [registry |-> registry, implementations |-> implementations,
         needs_generation |-> needs_generation, cache |-> cache,
         loaded_modules |-> loaded_modules, sys_modules |-> sys_modules,
         disk |-> disk]

SetHeap(H) ==
    /\ registry' = H.registry
    /\ implementations' = H.implementations
    /\ needs_generation' = H.needs_generation
    /\ cache' = H.cache
    /\ loaded_modules' = H.loaded_modules
    /\ sys_modules' = H.sys_modules
    /\ disk' = H.disk

FreshProcess(d) ==
    [registry |-> EmptyDict, implementations |-> EmptyDict,
     needs_generation |-> EmptyDict, cache |-> EmptyDict,
     loaded_modules |-> {}, sys_modules |-> {}, disk |-> d]

----------------------------------------------------------------------------
(* FunctionRegistry                                                        *)

FunctionMetadata(name, module, source, docstring, signature, frozen) ==
    [name |-> name, module |-> module, source |-> source,
     docstring |-> docstring, signature |-> signature, frozen |-> frozen,
     implementation |-> None]

register(H, name, module, source, docstring, signature, frozen) ==
    [H EXCEPT !.registry =
        Put(H.registry, get_full_name(module, name),
            FunctionMetadata(name, module, source, docstring, signature, frozen))]

store_implementation(H, full_name, implementation) ==
    [H EXCEPT
       !.registry = IF full_name \in DOMAIN H.registry
                    THEN [H.registry EXCEPT ![full_name].implementation = implementation]
                    ELSE H.registry,
       !.implementations = Put(H.implementations, full_name, implementation)]

get_implementation(H, full_name) ==
    IF full_name \in DOMAIN H.implementations
    THEN H.implementations[full_name]
    ELSE IF full_name \in DOMAIN H.registry
            /\ Truthy(H.registry[full_name].implementation)
         THEN H.registry[full_name].implementation
         ELSE None

\* needs_generation: the value returned
needs_generation_value(H, full_name, cached_hash) ==
    IF full_name \in DOMAIN H.needs_generation THEN H.needs_generation[full_name]
    ELSE IF full_name \notin DOMAIN H.registry THEN FALSE
    ELSE IF H.registry[full_name].frozen THEN FALSE
    ELSE IF cached_hash = None THEN TRUE
    ELSE get_hash(H.registry[full_name]) # cached_hash

\* the decision is returned and not recorded
needs_generation_memo_forgets(H, full_name, cached_hash) == H

\* needs_generation: the state it leaves (the decision is memoized)
needs_generation_memo(H, full_name, cached_hash) ==
    IF full_name \in DOMAIN H.needs_generation THEN H
    ELSE [H EXCEPT !.needs_generation =
            Put(H.needs_generation, full_name,
                needs_generation_value(H, full_name, cached_hash))]

clear_module(H, module_name) ==
    [H EXCEPT
       !.registry = Restrict(H.registry,
            {n \in DOMAIN H.registry : ~StartsWith(H.registry[n].module, module_name)}),
       !.implementations = Restrict(H.implementations,
            {n \in DOMAIN H.implementations : ~StartsWith(n, module_name)}),
       !.needs_generation = Restrict(H.needs_generation,
            {n \in DOMAIN H.needs_generation : ~StartsWith(n, module_name)})]

----------------------------------------------------------------------------
(* Cache                                                                   *)

module_name_to_cache_file(module_name) ==
    [i \in 1..Len(module_name) |->
        IF module_name[i] = Dot THEN "_" ELSE module_name[i]] \o <<".json">>

\* a JSON value that is no object (a number, say) where a record should be;
\* it is written as a record whose fields nothing reads
NotARecord == [hash |-> "5", implementation |-> "5"]

\* the content of a partition file that json.load rejects
Unparsable == [n \in {<<>>} |-> NotARecord]

\* Cache.load, lines 62-67: the records the loop stores before it comes to a
\* value that is no record, where ("implementation" in cache_data) raises
records_before_fault(module_cache) ==
    {n \in DOMAIN module_cache : module_cache[n] # NotARecord}

\* the registry after store_implementation for every record of a partition
RECURSIVE store_all(_, _, _)
store_all(H, module_cache, names) ==
    IF names = {} THEN H
    ELSE LET n == CHOOSE x \in names : TRUE
         IN store_all(store_implementation(H, n, module_cache[n].implementation),
                      module_cache, names \ {n})

\* the partition is read into the cache, the registry gets nothing
Cache_load_cache_only(H, module_name) ==
    IF module_name \in H.loaded_modules THEN H
    ELSE LET cache_file == module_name_to_cache_file(module_name)
             H1 == IF cache_file \in DOMAIN H.disk
                   THEN [H EXCEPT !.cache = Update(H.cache, H.disk[cache_file])]
                   ELSE H
         IN [H1 EXCEPT !.loaded_modules = H1.loaded_modules \cup {module_name}]

\* the partition is read again on every call
Cache_load_always_reads(H, module_name) ==
    LET cache_file == module_name_to_cache_file(module_name)
        H1 == IF cache_file \in DOMAIN H.disk
              THEN LET module_cache == H.disk[cache_file]
                   IN store_all([H EXCEPT !.cache = Update(H.cache, module_cache)],
                                module_cache, DOMAIN module_cache)
              ELSE H
    IN [H1 EXCEPT !.loaded_modules = H1.loaded_modules \cup {module_name}]

\* Cache.load, lines 46-75: whatever is raised while the file is read and its
\* records are taken over is caught and printed, after what was done so far
Cache_load(H, module_name) ==
    IF module_name \in H.loaded_modules THEN H
    ELSE LET cache_file == module_name_to_cache_file(module_name)
             H1 == IF cache_file \in DOMAIN H.disk /\ H.disk[cache_file] # Unparsable
                   THEN LET module_cache == H.disk[cache_file]
                        IN store_all([H EXCEPT !.cache = Update(H.cache, module_cache)],
                                     module_cache, records_before_fault(module_cache))
                   ELSE H
         IN [H1 EXCEPT !.loaded_modules = H1.loaded_modules \cup {module_name}]

\* the whole in-memory cache is written, unfiltered
Cache_save_unfiltered(H, module_name) ==
    [H EXCEPT !.disk = Put(H.disk, module_name_to_cache_file(module_name), H.cache)]

Cache_save(H, module_name) ==
    LET module_cache == Restrict(H.cache,
            {n \in DOMAIN H.cache : StartsWith(n, module_name \o <<Dot>>)})
    IN [H EXCEPT !.disk = Put(H.disk, module_name_to_cache_file(module_name), module_cache)]

Cache_get(H, func_name) ==
    IF func_name \in DOMAIN H.cache THEN <<H.cache[func_name]>> ELSE <<>>

\* an existing record is kept instead of replaced
Cache_store_keeps_existing(H, func_name, func_hash, implementation) ==
    IF func_name \in DOMAIN H.cache THEN H
    ELSE [H EXCEPT !.cache = Put(H.cache, func_name,
            [hash |-> func_hash, implementation |-> implementation])]

Cache_store(H, func_name, func_hash, implementation) ==
    [H EXCEPT !.cache = Put(H.cache, func_name,
        [hash |-> func_hash, implementation |-> implementation])]

----------------------------------------------------------------------------
(* TestRunner                                                              *)

\* extract_test_code raises when ast.parse rejects the source
extract_test_code_raises(source) == source = "indented"

\* extract_test_code: the body of the definition without its docstring
extract_test_code(source) ==
    IF source = "def:assert" THEN "assert fn(3) == 6\n" ELSE ""

\* run_test: the unit built from the template runs without fault
run_test_success(implementation, test_code) == implementation = "good"

\* run_test: traceback.format_exc() of the fault, None when there is none
run_test_error(implementation, test_code) ==
    IF run_test_success(implementation, test_code) THEN None
    ELSE IF implementation = "" THEN "Traceback: IndentationError"
    ELSE "Traceback: AssertionError"

\* TestRunner.run_test on the unit it builds.  A candidate is text that
\* does not compile, or a body that, called with an argument, returns the
\* expected value, returns another value, raises an error, calls fn (the
\* self-reference, which is None inside test_implementation) or leaves the
\* interpreter (sys.exit).  An assertion block is the sequence of arguments
\* its assertions call fn with.
Args == {1, 2}
Behaviours == {"right", "wrong", "raises", "calls_fn", "exits"}
Implementations ==
    {[compiles |-> FALSE, does |-> [a \in Args |-> "right"]]}
    \cup [compiles : {TRUE}, does : [Args -> Behaviours]]
TestCodes ==
    {<<>>} \cup {<<a>> : a \in Args} \cup {<<a, b>> : a \in Args, b \in Args}

\* what the statement "assert fn(a) == expected" raises, None when it passes
assert_raises(implementation, a) ==
    CASE implementation.does[a] = "right" -> None
      [] implementation.does[a] = "wrong" -> "AssertionError"
      [] implementation.does[a] = "raises" -> "ZeroDivisionError"
      [] implementation.does[a] = "calls_fn" -> "TypeError"
      [] implementation.does[a] = "exits" -> "SystemExit"

\* run_test, line 112: the assertion block runs statement by statement up
\* to the first one that raises
RECURSIVE block_raises(_, _, _)
block_raises(implementation, test_code, k) ==
    IF k > Len(test_code) THEN None
    ELSE IF assert_raises(implementation, test_code[k]) # None
         THEN assert_raises(implementation, test_code[k])
         ELSE block_raises(implementation, test_code, k + 1)

\* run_test, lines 109-112: exec of the unit, then run_test()
unit_raises(implementation, test_code) ==
    IF ~implementation.compiles THEN "SyntaxError"
    ELSE block_raises(implementation, test_code, 1)

\* the classes "except Exception" catches: SystemExit derives from
\* BaseException only
is_Exception(e) ==
    e \in {"SyntaxError", "AssertionError", "ZeroDivisionError", "TypeError"}

\* run_test, lines 107-116: what the call returns, or what it lets through
run_test(implementation, test_code) ==
    LET e == unit_raises(implementation, test_code)
    IN IF e = None
       THEN [propagated |-> None, success |-> TRUE, error_msg |-> None]
       ELSE IF is_Exception(e)
            THEN [propagated |-> None, success |-> FALSE,
                  error_msg |-> "Traceback: " \o e]
            ELSE [propagated |-> e, success |-> FALSE, error_msg |-> None]

----------------------------------------------------------------------------
(* CodeGenerator                                                           *)

\* the prompt never carries the previous error
prompt_feedback_dropped(error_feedback) == None

\* _create_prompt: the "Previous Error" section, None when the prompt has none
prompt_feedback(error_feedback) ==
    IF Truthy(error_feedback) THEN error_feedback ELSE None

\* what one _call_llm + _extract_code can do: return a candidate or raise
LlmOutcomes ==
    [ok : {TRUE}, text : Candidates] \cup [ok : {FALSE}, text : OracleErrors]

----------------------------------------------------------------------------
(* Probes.  They record what the run did and never influence it.           *)

ObsInit ==
    [module |-> <<>>,         \* namespace of the pass
     listed |-> <<>>,         \* full names the pass listed, in order
     visits |-> EmptyDict,    \* full name -> times its loop body started
     outcome |-> EmptyDict,   \* full name -> how its processing ended
     module_ret |-> <<>>,     \* <<value>> once process_module returned
     import_raised |-> FALSE, \* the import of the namespace raised
     success_before |-> TRUE, \* the success flag when the function was taken up
     success |-> TRUE,        \* the success flag when its processing ended
     fn |-> <<>>,             \* full name being (or last) processed
     had_record |-> FALSE,    \* the cache held a record when it was taken up
     hash_match |-> FALSE,    \* ... whose hash equalled the current hash
     frozen |-> FALSE,
     needed |-> FALSE,        \* what needs_generation returned
     before_impl |-> None,    \* get_implementation when it was taken up
     before_record |-> <<>>,  \* Cache.get when it was taken up
     oracle_calls |-> 0,
     verify_runs |-> 0,
     candidate |-> None,      \* the candidate the latest verification ran on
     diagnostic |-> None,     \* the diagnostic of the latest failed verification
     oracle_error |-> None,   \* str(e) of the latest oracle call, None if it returned
     call |-> <<>>,           \* <<the latest oracle call>>
     oracle_failures |-> 0,   \* oracle calls that raised
     error_msg |-> None,      \* the error shown for the function
     pkg_rets |-> <<>>,       \* <<module, value>> per process_module of the package pass
     pkg_ret |-> <<>>,        \* <<value>> once process_package returned
     package_failed |-> FALSE, \* the package did not import as a package
     saves |-> 0,             \* Cache.save calls of the pass
     stored |-> {},           \* full names Cache.store was called for in the pass
     event |-> <<>>,          \* <<namespace>> when the pass belongs to a change event
     cleared |-> <<>>,        \* <<namespace>> right after clear_module, nothing else done
     kept |-> {},             \* names resolvable before the event and re-declared unchanged
     removed |-> {}]          \* names cached before the event and not declared any more

IdlePass == [module_name |-> <<>>, functions |-> <<>>, i |-> 0, success |-> TRUE]
IdleGen == [attempt |-> 0, error_feedback |-> None, attempts |-> 0,
            feedback |-> None, test_code |-> ""]
IdlePkg == [active |-> FALSE, modules |-> <<>>, i |-> 0, success |-> TRUE]

State == [h |-> Heap, pc |-> pc, pass |-> pass, gen |-> gen, pkg |-> pkg, obs |-> obs]

Set(S) ==
    /\ SetHeap(S.h)
    /\ pc' = S.pc
    /\ pass' = S.pass
    /\ gen' = S.gen
    /\ pkg' = S.pkg
    /\ obs' = S.obs

----------------------------------------------------------------------------
(* Declarations.  A module's code, when it runs, declares functions: the   *)
(* decorator registers each of them.  What the file contains when it runs  *)
(* is an input.                                                            *)

\* the attributes a declaration may carry
DeclChoices(decl) ==
    IF decl[2] = <<"f">>
    THEN [source : Sources, docstring : Docstrings,
          signature : Signatures, frozen : BOOLEAN]
    ELSE [source : {"def:assert"}, docstring : {"d1"},
          signature : Signatures, frozen : {FALSE}]

DeclsOf(module_name) == {d \in Decls : d[1] = module_name}

\* what the code of a module can be: it raises before declaring anything,
\* or it declares each of its functions with some attributes
ModuleCodes(module_name) ==
    {[raises |-> TRUE, decls |-> EmptyDict]} \cup
    {[raises |-> FALSE, decls |-> c] :
        c \in {c \in [DeclsOf(module_name) -> UNION {DeclChoices(d) : d \in Decls}] :
                  \A d \in DeclsOf(module_name) : c[d] \in DeclChoices(d)}}

\* decorator.parablock: the decorator registers one declaration
parablock(H, decl, a) ==
    register(H, decl[2], decl[1], a.source, a.docstring, a.signature, a.frozen)

\* running the code of a module: every declaration, in file order
RECURSIVE run_declarations(_, _, _)
run_declarations(H, code, k) ==
    IF k > Len(DeclOrder) THEN H
    ELSE run_declarations(
            IF DeclOrder[k] \in DOMAIN code.decls
            THEN parablock(H, DeclOrder[k], code.decls[DeclOrder[k]])
            ELSE H,
            code, k + 1)

\* FunctionRegistry.get_all filtered as process_module filters it; a dict
\* lists its values in insertion order, which is the order of declaration
RECURSIVE functions_of(_, _, _)
functions_of(H, module_name, k) ==
    IF k > Len(DeclOrder) THEN <<>>
    ELSE LET n == get_full_name(DeclOrder[k][1], DeclOrder[k][2])
             here == /\ n \in DOMAIN H.registry
                     /\ \/ H.registry[n].module = module_name
                        \/ StartsWith(H.registry[n].module, module_name \o <<Dot>>)
         IN (IF here THEN <<H.registry[n]>> ELSE <<>>)
            \o functions_of(H, module_name, k + 1)

\* Processor._find_modules: the modules found under the package directory
find_modules(package_name) == <<ModuleM, ModuleN>>

----------------------------------------------------------------------------
(* Processor.process_module, in steps.                                     *)

\* the flag is overwritten by the latest result
accumulate_last(success, value) == value

\* process_package, lines 226-227: if not process_module(...): success = False
accumulate(success, value) == IF value THEN success ELSE FALSE

\* process_module returns: the caller (the command line, the reload
\* handler, or the loop of process_package) goes on
ReturnModule(S, value) ==
    LET O == [S.obs EXCEPT !.module_ret = <<value>>,
                           !.pkg_rets = IF S.pkg.active
                                        THEN Append(@, <<S.pass.module_name, value>>)
                                        ELSE @]
    IN [S EXCEPT
          !.pc = IF S.pkg.active THEN "package" ELSE "idle",
          !.pass = IdlePass,
          !.gen = IdleGen,
          !.pkg = IF S.pkg.active
                  THEN [@ EXCEPT !.success = accumulate(@, value), !.i = @ + 1]
                  ELSE @,
          !.obs = O]

\* lines 57-82: import, load the cache, list the functions
BeginModule(S, module_name, code) ==
    LET O == [ObsInit EXCEPT !.module = module_name, !.pkg_rets = S.obs.pkg_rets,
                             !.event = S.obs.event, !.kept = S.obs.kept,
                             !.removed = S.obs.removed]
        S0 == [S EXCEPT !.obs = O, !.pass = [IdlePass EXCEPT !.module_name = module_name]]
        imported == module_name \in S.h.sys_modules
    IN IF ~imported /\ code.raises
       THEN ReturnModule([S0 EXCEPT !.obs.import_raised = TRUE], FALSE)
       ELSE LET H1 == IF imported THEN S.h
                      ELSE [run_declarations(S.h, code, 1) EXCEPT
                              !.sys_modules = @ \cup {module_name}]
                H2 == Cache_load(H1, module_name)
                functions == functions_of(H2, module_name, 1)
                S1 == [S0 EXCEPT !.h = H2,
                         !.obs.listed = [k \in 1..Len(functions) |->
                             get_full_name(functions[k].module, functions[k].name)]]
            IN IF functions = <<>>
               THEN ReturnModule(S1, TRUE)
               ELSE [S1 EXCEPT !.pc = "module",
                        !.pass = [module_name |-> module_name, functions |-> functions,
                                  i |-> 1, success |-> TRUE]]

\* the key is missed and the default is taken
cached_implementation_default(cache_entry) == ""

\* line 100: cache_entry.get("implementation", "")
cached_implementation(cache_entry) == cache_entry.implementation

\* lines 137-142: the loop goes on, or the cache is saved and the pass returns
Advance(S) ==
    IF S.pass.i < Len(S.pass.functions)
    THEN [S EXCEPT !.pc = "module", !.pass.i = @ + 1, !.gen = IdleGen]
    ELSE ReturnModule([S EXCEPT !.h = Cache_save(S.h, S.pass.module_name),
                                !.obs.saves = @ + 1],
                      S.pass.success)

\* the last candidate is kept when the attempts run out
Finish_keeps_candidate(S, full_name, how, error_msg) ==
    [S EXCEPT !.h = IF how = "verify_failed"
                    THEN store_implementation(S.h, full_name, S.obs.candidate)
                    ELSE S.h,
              !.obs.outcome = Put(@, full_name, how), !.obs.error_msg = error_msg,
              !.obs.success = S.pass.success]

Finish(S, full_name, how, error_msg) ==
    [S EXCEPT !.obs.outcome = Put(@, full_name, how), !.obs.error_msg = error_msg,
              !.obs.success = S.pass.success]

\* lines 85-120: one function is taken up
ModuleStep(S) ==
    LET func_metadata == S.pass.functions[S.pass.i]
        full_name == get_full_name(func_metadata.module, func_metadata.name)
        func_hash == get_function_hash(func_metadata.docstring, func_metadata.signature)
        cache_entry == Cache_get(S.h, full_name)
        cached_hash == IF cache_entry # <<>> THEN cache_entry[1].hash ELSE None
        need == needs_generation_value(S.h, full_name, cached_hash)
        H1 == needs_generation_memo(S.h, full_name, cached_hash)
        O == [S.obs EXCEPT
                !.fn = full_name,
                !.success_before = S.pass.success,
                !.success = S.pass.success,
                !.visits = Put(@, full_name,
                               IF full_name \in DOMAIN @ THEN @[full_name] + 1 ELSE 1),
                !.had_record = cache_entry # <<>>,
                !.hash_match = cached_hash = func_hash,
                !.frozen = func_metadata.frozen,
                !.needed = need,
                !.before_impl = get_implementation(S.h, full_name),
                !.before_record = cache_entry,
                !.oracle_calls = 0, !.verify_runs = 0, !.candidate = None,
                !.diagnostic = None, !.oracle_error = None,
                !.call = <<>>, !.oracle_failures = 0,
                !.error_msg = None]
        S1 == [S EXCEPT !.h = H1, !.obs = O]
    IN IF ~need
       THEN IF cache_entry # <<>>
            THEN Advance(Finish(
                    [S1 EXCEPT !.h = store_implementation(H1, full_name,
                                        cached_implementation(cache_entry[1]))],
                    full_name, "cached", None))
            ELSE Advance(Finish([S1 EXCEPT !.pass.success = FALSE],
                                full_name, "no_cache", None))
       ELSE IF extract_test_code_raises(func_metadata.source)
            THEN ReturnModule(Finish(S1, full_name, "raised", None), FALSE)
            ELSE [S1 EXCEPT !.pc = "generate",
                    !.gen = [IdleGen EXCEPT
                               !.test_code = extract_test_code(func_metadata.source)]]

\* _generate_and_test, line 183: the message of an aborted generation
generation_failed_message(attempt) ==
    IF attempt = 0 THEN "Failed to generate implementation after 1 attempts"
    ELSE IF attempt = 1 THEN "Failed to generate implementation after 2 attempts"
    ELSE IF attempt = 2 THEN "Failed to generate implementation after 3 attempts"
    ELSE "Failed to generate implementation after more attempts"

\* the loop gives up one attempt early
more_attempts_one_short(attempt) == attempt + 2 < max_attempts

\* the loop bound off by one: a fourth attempt
more_attempts_off_by_one(attempt) == attempt + 1 <= max_attempts

\* _generate_and_test, line 172: for attempt in range(max_attempts)
more_attempts(attempt) == attempt + 1 < max_attempts

\* the loop bound off by one: a fourth oracle call in one attempt
more_retries_off_by_one(attempts) == attempts <= max_retries

\* generate_implementation, line 59: while attempts < max_retries
more_retries(attempts) == attempts < max_retries

\* the first diagnostic is kept instead of the latest
next_error_feedback_keeps_first(error_feedback, test_error) ==
    IF error_feedback = None THEN test_error ELSE error_feedback

\* _generate_and_test, line 199: error_feedback = test_error
next_error_feedback(error_feedback, test_error) == test_error

\* _generate_and_test, line 202: what is returned when the attempts run out
exhausted_error(error_feedback) == error_feedback

\* One oracle call of generate_implementation (lines 59-80) and what follows
\* from its outcome without another oracle call: the verification run, the
\* stores on a pass, the next attempt or the end of the function (lines
\* 172-202 and 122-135).
GenerateStep(S, out) ==
    LET func_metadata == S.pass.functions[S.pass.i]
        full_name == get_full_name(func_metadata.module, func_metadata.name)
        func_hash == get_function_hash(func_metadata.docstring, func_metadata.signature)
        attempts == S.gen.attempts + 1
        O1 == [S.obs EXCEPT
                 !.oracle_calls = @ + 1,
                 !.oracle_failures = IF out.ok THEN @ ELSE @ + 1,
                 !.oracle_error = IF out.ok THEN None ELSE out.text,
                 !.call = <<[attempt |-> S.gen.attempt + 1,
                             retry |-> attempts,
                             feedback |-> prompt_feedback(S.gen.feedback),
                             prev_diagnostic |-> S.obs.diagnostic,
                             prev_error |-> S.obs.oracle_error,
                             ok |-> out.ok]>>]
    IN IF ~out.ok
       THEN IF more_retries(attempts)
            THEN [S EXCEPT !.obs = O1, !.gen.attempts = attempts,
                           !.gen.feedback = out.text]
            ELSE Advance(Finish([S EXCEPT !.obs = O1, !.pass.success = FALSE],
                                full_name, "oracle_failed",
                                generation_failed_message(S.gen.attempt)))
       ELSE LET implementation == out.text
                O2 == [O1 EXCEPT !.candidate = implementation,
                                 !.verify_runs = @ + 1]
                test_success == run_test_success(implementation, S.gen.test_code)
                test_error == run_test_error(implementation, S.gen.test_code)
            IN IF test_success
               THEN LET H1 == store_implementation(S.h, full_name, implementation)
                        latest == get_implementation(H1, full_name)
                        H2 == IF Truthy(latest)
                              THEN Cache_store(H1, full_name, func_hash, latest)
                              ELSE H1
                        O4 == IF Truthy(latest)
                              THEN [O2 EXCEPT !.stored = @ \cup {full_name}]
                              ELSE O2
                    IN Advance(Finish([S EXCEPT !.obs = O4, !.h = H2],
                                      full_name, "generated", None))
               ELSE LET O3 == [O2 EXCEPT !.diagnostic = test_error]
                        error_feedback ==
                            next_error_feedback(S.gen.error_feedback, test_error)
                    IN IF more_attempts(S.gen.attempt)
                       THEN [S EXCEPT !.obs = O3,
                               !.gen = [attempt |-> S.gen.attempt + 1,
                                        error_feedback |-> error_feedback,
                                        attempts |-> 0,
                                        feedback |-> error_feedback,
                                        test_code |-> S.gen.test_code]]
                       ELSE Advance(Finish([S EXCEPT !.obs = O3, !.pass.success = FALSE],
                                           full_name, "verify_failed",
                                           exhausted_error(error_feedback)))

----------------------------------------------------------------------------
(* Actions.                                                                *)

NoCode == [raises |-> FALSE, decls |-> EmptyDict]

\* no Dispatcher call was just made
NoDisp == [fn |-> <<>>]

\* a step of the processor: the handler in progress ends when the processor
\* gets back to idle; the queue of events is left alone
ProcessorStep ==
    /\ reconciling' = IF pc' = "idle" THEN <<>> ELSE reconciling
    /\ disp' = NoDisp
    /\ UNCHANGED <<events, test_run>>

\* the code import_module would run: none when the module is already imported
CodesFor(module_name) ==
    IF module_name \in sys_modules THEN {NoCode} ELSE ModuleCodes(module_name)

\* importing a module imports its package first
WithPackage(S) == [S EXCEPT !.h.sys_modules =
    IF @ \cap (ModuleNames \cup {ModuleS}) # {} THEN @ \cup {PackageName} ELSE @]

\* Processor.process_module called for a module (command line --module)
ProcessModule(module_name, code) ==
    /\ pc = "idle"
    /\ ops < MaxOps
    /\ Set(WithPackage(BeginModule([State EXCEPT !.obs = ObsInit], module_name, code)))
    /\ ops' = ops + 1
    /\ UNCHANGED redeclared
    /\ ProcessorStep

\* the loop body of process_module for the next function
ProcessFunction ==
    /\ pc = "module"
    /\ Set(ModuleStep(State))
    /\ UNCHANGED <<ops, redeclared>>
    /\ ProcessorStep

\* one oracle call, with its outcome
CallOracle(out) ==
    /\ pc = "generate"
    /\ Set(GenerateStep(State, out))
    /\ UNCHANGED <<ops, redeclared>>
    /\ ProcessorStep

\* Processor.process_package, lines 214-224: the package is imported and its
\* modules are listed; package_ok is false when the import raises or the
\* name is not a package
ProcessPackage(package_ok) ==
    /\ pc = "idle"
    /\ ops < MaxOps
    /\ package_ok \/ PackageName \notin sys_modules
    /\ IF package_ok
       THEN Set([State EXCEPT
                   !.h.sys_modules = @ \cup {PackageName},
                   !.pc = "package",
                   !.pkg = [active |-> TRUE, modules |-> find_modules(PackageName),
                            i |-> 1, success |-> TRUE],
                   !.obs = ObsInit])
       ELSE Set([State EXCEPT !.obs = [ObsInit EXCEPT !.pkg_ret = <<FALSE>>,
                                                      !.package_failed = TRUE]])
    /\ ops' = ops + 1
    /\ UNCHANGED redeclared
    /\ ProcessorStep

\* process_package, lines 225-227: process_module for the next module
PackageNext ==
    /\ pc = "package"
    /\ pkg.i <= Len(pkg.modules)
    /\ \E code \in CodesFor(pkg.modules[pkg.i]) :
          Set(WithPackage(BeginModule(State, pkg.modules[pkg.i], code)))
    /\ UNCHANGED <<ops, redeclared>>
    /\ ProcessorStep

\* process_package, line 229
PackageReturn ==
    /\ pc = "package"
    /\ pkg.i > Len(pkg.modules)
    /\ Set([State EXCEPT !.pc = "idle", !.pkg = IdlePkg,
                         !.obs.pkg_ret = <<pkg.success>>])
    /\ UNCHANGED <<ops, redeclared>>
    /\ ProcessorStep

\* the decorator runs again for a declaration of an imported module
Redeclare(decl, a) ==
    /\ pc = "idle"
    /\ redeclared < MaxRedeclared
    /\ decl[1] \in sys_modules
    /\ Set([State EXCEPT !.h = parablock(@, decl, a), !.obs = ObsInit])
    /\ redeclared' = redeclared + 1
    /\ UNCHANGED ops
    /\ ProcessorStep

\* the declarations run before the registry is cleared
reload_module_declares_first(S, module_name, code) ==
    LET H1 == run_declarations(S.h, code, 1)
    IN IF code.raises
       THEN [S EXCEPT !.h = clear_module(H1, module_name),
                      !.obs.cleared = <<module_name>>]
       ELSE BeginModule([S EXCEPT !.h = clear_module(H1, module_name)],
                        module_name, NoCode)

\* FileChangeHandler._reload_module, lines 268-280: the registry is cleared,
\* the module is reloaded (its declarations run again) and processed; when
\* the reload raises the handler prints the error and processes nothing
reload_module(S, module_name, code) ==
    LET H1 == clear_module(S.h, module_name)
    IN IF code.raises
       THEN [S EXCEPT !.h = H1, !.obs.cleared = <<module_name>>]
       ELSE BeginModule([S EXCEPT !.h = run_declarations(H1, code, 1)],
                        module_name, NoCode)

\* FileChangeHandler._reload_module called for an imported module
ReloadModule(module_name, code) ==
    /\ pc = "idle"
    /\ ops < MaxOps
    /\ module_name \in sys_modules
    /\ Set(reload_module([State EXCEPT !.obs = ObsInit], module_name, code))
    /\ ops' = ops + 1
    /\ UNCHANGED redeclared
    /\ ProcessorStep

\* main, lines 334-356, without --watch: the status the process exits with
\* after process_module or process_package returned value; main drops the
\* value and returns, and only a missing API key makes it call sys.exit(1)
main_exit(api_key, value) == IF ~api_key THEN 1 ELSE 0

\* the process ends and a new one starts: only the persisted cache remains
Restart ==
    /\ pc = "idle"
    /\ ops < MaxOps
    /\ sys_modules # {}
    /\ Set([State EXCEPT !.h = FreshProcess(disk), !.obs = ObsInit])
    /\ ops' = ops + 1
    /\ events' = <<>>
    /\ reconciling' = <<>>
    /\ disp' = NoDisp
    /\ UNCHANGED <<redeclared, test_run>>

----------------------------------------------------------------------------
(* The Dispatcher (executor.pararun), the inspection operation (peek), and *)
(* the watcher: change events queue up and the observer's one thread hands *)
(* them to FileChangeHandler.on_modified one after the other.              *)

WatchModules == {ModuleM, ModuleS, PackageName}

\* the modules whose files are edited while the observer runs
EditedModules == {ModuleM, ModuleS}

AllDeclsOf(module_name) == {d \in AllDecls : d[1] = module_name}

\* a declaration an edit of the file may take out
Removable == {DeclOrder[1]}

\* the attributes a declaration may carry in the edited files
WatchChoices(decl) ==
    IF decl = DeclOrder[1]
    THEN [source : {"def:assert"}, docstring : Docstrings,
          signature : Signatures, frozen : {FALSE}]
    ELSE IF decl = DeclOrder[2]
    THEN [source : Sources, docstring : {"d1"},
          signature : Signatures, frozen : {FALSE}]
    ELSE [source : {"def:assert"}, docstring : {"d1"},
          signature : Signatures, frozen : {FALSE}]

\* what the code of a module can be when the files are being edited: it
\* raises, or it declares its functions, possibly without a removed one
WatchCodes(module_name) ==
    {[raises |-> TRUE, decls |-> EmptyDict]} \cup
    {[raises |-> FALSE, decls |-> c] :
        c \in UNION {
            {c \in [AllDeclsOf(module_name) \ R -> UNION {WatchChoices(d) : d \in AllDecls}] :
                \A d \in AllDeclsOf(module_name) \ R : c[d] \in WatchChoices(d)} :
            R \in SUBSET (Removable \cap AllDeclsOf(module_name))}}

WatchCodesFor(module_name) ==
    IF module_name \in sys_modules THEN {NoCode} ELSE WatchCodes(module_name)

\* the oracle's responses while the files are being edited
WatchOutcomes == [ok : {TRUE}, text : {"bad", "good"}]

\* ".".join(module_name.split(".")[:-1])
parent_module(module_name) ==
    LET dots == {i \in 1..Len(module_name) : module_name[i] = Dot}
    IN IF dots = {} THEN <<>>
       ELSE SubSeq(module_name, 1, (CHOOSE i \in dots : \A j \in dots : j <= i) - 1)

\* the grandparent partition is loaded as well
parent_fallback_twice(H, module_name, implementation) ==
    IF ~Truthy(implementation) /\ parent_module(module_name) # <<>>
    THEN LET H1 == Cache_load(H, parent_module(module_name))
         IN IF parent_module(parent_module(module_name)) # <<>>
            THEN Cache_load(H1, parent_module(parent_module(module_name)))
            ELSE H1
    ELSE H

\* pararun.wrapper, lines 47-52: the parent's partition is tried when the
\* implementation is absent
parent_fallback(H, module_name, implementation) ==
    IF ~Truthy(implementation) /\ parent_module(module_name) # <<>>
    THEN Cache_load(H, parent_module(module_name))
    ELSE H

\* pararun.wrapper, lines 54-58: RuntimeError when no implementation
no_implementation(implementation) == ~Truthy(implementation)

\* pararun.wrapper: what one call does to the heap and what it comes to
pararun(H, module_name, name) ==
    LET full_name == get_full_name(module_name, name)
        H1 == Cache_load(H, module_name)
        first == get_implementation(H1, full_name)
        H2 == parent_fallback(H1, module_name, first)
        implementation == get_implementation(H2, full_name)
    IN [h |-> H2,
        first |-> first,
        raised |-> no_implementation(implementation),
        implementation |-> implementation]

\* parablock.peek: the text returned and the heap it leaves
peek(H, module_name, name) ==
    LET full_name == get_full_name(module_name, name)
        H1 == Cache_load(H, module_name)
        implementation == get_implementation(H1, full_name)
    IN [h |-> H1,
        first |-> implementation,
        raised |-> FALSE,
        implementation |-> IF Truthy(implementation) THEN implementation
                           ELSE "Could not find implementation"]

\* the application imports a module: its declarations run
Import(module_name, code) ==
    /\ pc = "idle"
    /\ module_name \notin sys_modules
    /\ ~code.raises
    /\ Set(WithPackage([State EXCEPT
              !.h = [run_declarations(@, code, 1) EXCEPT
                        !.sys_modules = @ \cup {module_name}],
              !.obs = ObsInit]))
    /\ UNCHANGED <<ops, redeclared>>
    /\ ProcessorStep

\* a declared function is called, from a thread of the application
Dispatch(decl) ==
    /\ get_full_name(decl[1], decl[2]) \in DOMAIN registry
    /\ LET r == pararun(Heap, decl[1], decl[2])
       IN /\ SetHeap(r.h)
          /\ disp' = [fn |-> get_full_name(decl[1], decl[2]),
                      kind |-> "invoke",
                      first |-> r.first,
                      raised |-> r.raised,
                      implementation |-> r.implementation]
    /\ UNCHANGED <<pc, pass, gen, pkg, obs, ops, redeclared, events, reconciling,
                   test_run>>

\* f.peek() is called, at the prompt, while the processor is idle
Peek(decl) ==
    /\ pc = "idle"
    /\ get_full_name(decl[1], decl[2]) \in DOMAIN registry
    /\ LET r == peek(Heap, decl[1], decl[2])
       IN /\ SetHeap(r.h)
          /\ disp' = [fn |-> get_full_name(decl[1], decl[2]),
                      kind |-> "peek",
                      first |-> r.first,
                      raised |-> r.raised,
                      implementation |-> r.implementation]
    /\ UNCHANGED <<pc, pass, gen, pkg, obs, ops, redeclared, events, reconciling,
                   test_run>>

\* a file of the watched directory is written: the observer queues an event
FileChanged(module_name) ==
    /\ ops < MaxOps
    /\ events' = Append(events, module_name)
    /\ ops' = ops + 1
    /\ disp' = NoDisp
    /\ UNCHANGED <<registry, implementations, needs_generation, cache, loaded_modules,
                   sys_modules, disk, pc, pass, gen, pkg, obs, redeclared, reconciling,
                   test_run>>

\* every event gets a thread of its own
observer_free_always == TRUE

\* main, lines 361-384: one Observer with one handler; its thread hands the
\* next event over when the handler has returned from the one before
observer_free == pc = "idle"

\* the names that resolved before the event and are declared again unchanged
kept_by(H, module_name, code) ==
    LET H2 == run_declarations(clear_module(H, module_name), code, 1)
    IN {n \in DOMAIN H.registry \cap DOMAIN H2.registry :
           /\ Truthy(get_implementation(H, n))
           /\ H.registry[n].module = module_name
           /\ H.registry[n].docstring = H2.registry[n].docstring
           /\ H.registry[n].signature = H2.registry[n].signature
           /\ H.registry[n].source = H2.registry[n].source
           /\ H.registry[n].frozen = H2.registry[n].frozen}

\* the names of the module that have a cache record before the event and
\* are not declared by the reloaded code
removed_by(H, module_name, code) ==
    LET H2 == run_declarations(clear_module(H, module_name), code, 1)
    IN {n \in DOMAIN H.registry \ DOMAIN H2.registry :
           /\ n \in DOMAIN H.cache
           /\ H.registry[n].module = module_name}

\* FileChangeHandler.on_modified for the next event of the queue: an
\* imported module is reloaded and processed, a new module of the package
\* is imported and processed
OnModified(code) ==
    /\ observer_free
    /\ events # <<>>
    /\ LET module_name == Head(events)
           S0 == [State EXCEPT !.obs = [ObsInit EXCEPT !.event = <<module_name>>]]
       IN IF module_name \in sys_modules
          THEN Set(reload_module(
                      [S0 EXCEPT
                          !.obs.kept =
                              IF code.raises THEN {} ELSE kept_by(Heap, module_name, code),
                          !.obs.removed =
                              IF code.raises THEN {}
                              ELSE removed_by(Heap, module_name, code)],
                      module_name, code))
          ELSE IF code.raises
               THEN Set(S0)
               ELSE Set(WithPackage(BeginModule(S0, module_name, code)))
    /\ events' = Tail(events)
    /\ reconciling' = IF pc' = "idle" THEN <<>> ELSE Append(reconciling, Head(events))
    /\ disp' = NoDisp
    /\ UNCHANGED <<ops, redeclared, test_run>>

\* no run_test call was just made
NoRun == [implementation |-> <<>>]

\* TestRunner.run_test is called on a candidate and an assertion block
RunTest(implementation, test_code) ==
    /\ test_run' = [implementation |-> implementation, test_code |-> test_code,
                    result |-> run_test(implementation, test_code)]
    /\ UNCHANGED <<registry, implementations, needs_generation, cache, loaded_modules,
                   sys_modules, disk, pc, pass, gen, pkg, obs, ops, redeclared,
                   events, reconciling, disp>>

Init ==
    /\ registry = EmptyDict
    /\ implementations = EmptyDict
    /\ needs_generation = EmptyDict
    /\ cache = EmptyDict
    /\ loaded_modules = {}
    /\ sys_modules = {}
    /\ disk = EmptyDict
    /\ pc = "idle"
    /\ pass = IdlePass
    /\ gen = IdleGen
    /\ pkg = IdlePkg
    /\ obs = ObsInit
    /\ ops = 0
    /\ redeclared = 0
    /\ events = <<>>
    /\ reconciling = <<>>
    /\ disp = NoDisp
    /\ test_run = NoRun

Next ==
    \/ \E m \in ModuleNames : \E code \in CodesFor(m) : ProcessModule(m, code)
    \/ ProcessFunction
    \/ \E out \in LlmOutcomes : CallOracle(out)
    \/ \E package_ok \in BOOLEAN : ProcessPackage(package_ok)
    \/ PackageNext
    \/ PackageReturn
    \/ \E d \in Decls : \E a \in DeclChoices(d) : Redeclare(d, a)
    \/ \E m \in ModuleNames : \E code \in ModuleCodes(m) : ReloadModule(m, code)
    \/ Restart

Spec == Init /\ [][Next]_vars

\* the processor watching the package while the application calls functions
NextWatch ==
    \/ \E m \in WatchModules : \E code \in WatchCodesFor(m) : ProcessModule(m, code)
    \/ ProcessFunction
    \/ \E out \in WatchOutcomes : CallOracle(out)
    \/ \E m \in WatchModules : \E code \in WatchCodes(m) : Import(m, code)
    \/ \E m \in EditedModules : FileChanged(m)
    \/ \E m \in WatchModules : \E code \in WatchCodes(m) :
          events # <<>> /\ m = Head(events) /\ OnModified(code)
    \/ Restart
    \/ \E d \in AllDecls : Dispatch(d)
    \/ \E d \in AllDecls : Peek(d)

SpecWatch == Init /\ [][NextWatch]_vars

\* the code of p.m in the files of the reload runs: it raises, or it
\* declares g
ReloadCodes ==
    {code \in WatchCodes(ModuleM) :
        /\ DOMAIN code.decls \subseteq {DeclOrder[2]}
        /\ \A d \in DOMAIN code.decls : code.decls[d].source = "def:assert"}

ReloadCodesFor == IF ModuleM \in sys_modules THEN {NoCode} ELSE ReloadCodes

\* the processor watching module p.m with nothing else going on in the
\* process
NextReload ==
    \/ \E code \in ReloadCodesFor : ProcessModule(ModuleM, code)
    \/ ProcessFunction
    \/ \E out \in LlmOutcomes : CallOracle(out)
    \/ FileChanged(ModuleM)
    \/ \E code \in ReloadCodes : OnModified(code)

\* process_module and _generate_and_test are synchronous loops: once
\* started they go on, and every oracle call and verification run returns
Progress ==
    /\ WF_vars(ProcessFunction)
    /\ WF_vars(\E out \in LlmOutcomes : CallOracle(out))

SpecReload == Init /\ [][NextReload]_vars /\ Progress

\* the verification harness on its own, on every candidate and block
NextRunTest ==
    \E implementation \in Implementations : \E test_code \in TestCodes :
        RunTest(implementation, test_code)

SpecRunTest == Init /\ [][NextRunTest]_vars

\* what the partition file of a namespace holds once it is damaged: nothing
\* json.load accepts, or its records and one more value that is no record
Damaged(module_name) ==
    LET cache_file == module_name_to_cache_file(module_name)
    IN IF cache_file \notin DOMAIN disk THEN {}
       ELSE {Unparsable} \cup
            (IF disk[cache_file] = Unparsable THEN {}
             ELSE {Put(disk[cache_file], get_full_name(module_name, <<"?">>),
                       NotARecord)})

\* the partition file of a namespace is damaged while the processor is idle
Damage(module_name, content) ==
    /\ pc = "idle"
    /\ disk' = Put(disk, module_name_to_cache_file(module_name), content)
    /\ disp' = NoDisp
    /\ UNCHANGED <<registry, implementations, needs_generation, cache, loaded_modules,
                   sys_modules, pc, pass, gen, pkg, obs, ops, redeclared, events,
                   reconciling, test_run>>

\* module p.m is processed and, in a later process, imported and called,
\* and its partition file gets damaged in between
NextDamage ==
    \/ \E code \in ReloadCodesFor : ProcessModule(ModuleM, code)
    \/ ProcessFunction
    \/ \E out \in WatchOutcomes : CallOracle(out)
    \/ \E content \in Damaged(ModuleM) : Damage(ModuleM, content)
    \/ Restart
    \/ \E code \in ReloadCodes : Import(ModuleM, code)
    \/ Dispatch(DeclOrder[2])

SpecDamage == Init /\ [][NextDamage]_vars

\* the application starts in a process of its own, on the partitions the
\* processor left: nothing is in memory
Launch ==
    /\ pc = "idle"
    /\ sys_modules # {}
    /\ Set([State EXCEPT !.h = FreshProcess(disk), !.obs = ObsInit])
    /\ events' = <<>>
    /\ reconciling' = <<>>
    /\ disp' = NoDisp
    /\ UNCHANGED <<ops, redeclared, test_run>>

\* the namespaces processed in the runs over the tree: the package and its
\* module p.m
TreeModules == {PackageName, ModuleM}

\* the processor runs over the package or over its module, and the
\* application, started anew, imports the module and calls its functions
NextTree ==
    \/ \E m \in TreeModules : \E code \in WatchCodesFor(m) : ProcessModule(m, code)
    \/ ProcessFunction
    \/ \E out \in WatchOutcomes : CallOracle(out)
    \/ \E code \in WatchCodes(ModuleM) : Import(ModuleM, code)
    \/ Launch
    \/ \E d \in AllDeclsOf(ModuleM) : Dispatch(d)

SpecTree == Init /\ [][NextTree]_vars

\* a sibling of p.m whose name starts with the same characters
ModuleM2 == <<"p", ".", "m", "2">>

\* the declarations the registry holds when namespaces are cleared: f and
\* sx of module p.m, h of its sub-namespace p.m.s, k of the sibling p.m2
ClearDecls ==
    {<<ModuleM, <<"f">>>>, <<ModuleM, <<"s", "x">>>>, <<ModuleS, <<"h">>>>,
     <<ModuleM2, <<"k">>>>}

ClearNames == {get_full_name(d[1], d[2]) : d \in ClearDecls}

\* the namespaces clear_module is called for
ClearSpaces == {PackageName, ModuleM, ModuleS, ModuleM2}

\* decorator.parablock runs for a declaration
Register(decl) ==
    /\ pc = "idle"
    /\ get_full_name(decl[1], decl[2]) \notin DOMAIN registry
    /\ Set([State EXCEPT
              !.h = parablock(@, decl, [source |-> "def:assert", docstring |-> "d1",
                                       signature |-> "(fn, n)", frozen |-> FALSE]),
              !.obs = ObsInit])
    /\ UNCHANGED <<ops, redeclared>>
    /\ ProcessorStep

\* FunctionRegistry.store_implementation is called for a name
Store(full_name) ==
    /\ pc = "idle"
    /\ full_name \notin DOMAIN implementations
    /\ Set([State EXCEPT !.h = store_implementation(@, full_name, "good"),
                         !.obs = ObsInit])
    /\ UNCHANGED <<ops, redeclared>>
    /\ ProcessorStep

\* FunctionRegistry.needs_generation is called for a name without a cached
\* hash
Decide(full_name) ==
    /\ pc = "idle"
    /\ full_name \notin DOMAIN needs_generation
    /\ Set([State EXCEPT !.h = needs_generation_memo(@, full_name, None),
                         !.obs = ObsInit])
    /\ UNCHANGED <<ops, redeclared>>
    /\ ProcessorStep

\* FunctionRegistry.clear_module is called for a namespace
Clear(module_name) ==
    /\ pc = "idle"
    /\ Set([State EXCEPT !.h = clear_module(@, module_name),
                         !.obs = [ObsInit EXCEPT !.cleared = <<module_name>>]])
    /\ UNCHANGED <<ops, redeclared>>
    /\ ProcessorStep

\* the registry on its own: it is filled and namespaces are cleared
NextClear ==
    \/ \E d \in ClearDecls : Register(d)
    \/ \E n \in ClearNames : Store(n)
    \/ \E n \in ClearNames : Decide(n)
    \/ \E m \in ClearSpaces : Clear(m)

SpecClear == Init /\ [][NextClear]_vars

\* a top-level module whose name is that of p.m with an underscore for the
\* dot
ModuleU == <<"p", "_", "m">>

\* the namespaces whose partitions are written and read
FileSpaces == {ModuleM, ModuleU}

\* a function of each of them
FileNames == {get_full_name(ModuleM, <<"f">>), get_full_name(ModuleU, <<"k">>)}

\* Cache.store is called for a verified implementation of a function
Record(func_name, docstring) ==
    /\ pc = "idle"
    /\ Set([State EXCEPT
              !.h = Cache_store(@, func_name,
                                get_function_hash(docstring, "(fn, n)"), "good"),
              !.obs = ObsInit])
    /\ UNCHANGED <<ops, redeclared>>
    /\ ProcessorStep

\* Cache.save is called for a namespace
Save(module_name) ==
    /\ pc = "idle"
    /\ Set([State EXCEPT
              !.h = Cache_save(@, module_name),
              !.obs = [ObsInit EXCEPT !.module = module_name, !.saves = 1]])
    /\ UNCHANGED <<ops, redeclared>>
    /\ ProcessorStep

\* Cache.load is called for a namespace
Load(module_name) ==
    /\ pc = "idle"
    /\ Set([State EXCEPT !.h = Cache_load(@, module_name),
                         !.obs = [ObsInit EXCEPT !.module = module_name]])
    /\ UNCHANGED <<ops, redeclared>>
    /\ ProcessorStep

\* the process ends and another starts on the partitions left on disk
Exit ==
    /\ pc = "idle"
    /\ cache # EmptyDict \/ loaded_modules # {}
    /\ Set([State EXCEPT !.h = FreshProcess(disk), !.obs = ObsInit])
    /\ UNCHANGED <<ops, redeclared>>
    /\ ProcessorStep

\* the cache on its own: records are stored, partitions saved and loaded
NextFiles ==
    \/ \E n \in FileNames : \E docstring \in Docstrings : Record(n, docstring)
    \/ \E m \in FileSpaces : Save(m)
    \/ \E m \in FileSpaces : Load(m)
    \/ Exit

SpecFiles == Init /\ [][NextFiles]_vars

TypeOK ==
    /\ pc \in {"idle", "module", "generate", "package"}
    /\ ops \in 0..MaxOps
    /\ redeclared \in 0..MaxRedeclared
    /\ DOMAIN registry \subseteq FullNames \cup ClearNames
    /\ gen.attempt \in 0..(max_attempts - 1)
    /\ gen.attempts \in 0..(max_retries - 1)

----------------------------------------------------------------------------
(* Properties.                                                             *)

\* how the processing of the function in hand ended, "pending" while it runs
Outcome ==
    IF obs.fn \in DOMAIN obs.outcome THEN obs.outcome[obs.fn] ELSE "pending"

\* the pass is, or has ended, failed
PassFailed ==
    IF obs.module_ret # <<>> THEN obs.module_ret = <<FALSE>> ELSE ~pass.success

\* C1: cache-hit short circuit.  If, when a function is taken up in a pass,
\* the cache holds a record for its full name whose hash equals the
\* function's current specification hash, the oracle is not called for that
\* function in that pass.
C1_CacheHitShortCircuit ==
    (obs.had_record /\ obs.hash_match) => obs.oracle_calls = 0

\* C2: a frozen function with a stored implementation never regenerates.
\* If the function taken up is frozen and a cache record exists for its full
\* name, the oracle is not called for it, whatever the hashes are.
C2_FrozenNeverRegenerates ==
    (obs.frozen /\ obs.had_record) => obs.oracle_calls = 0

TestCode == extract_test_code(registry[obs.fn].source)

\* C5: retry success.  When a function ends generated, the candidate stored
\* is the latest one, the k-th, which passed after k verification runs (and,
\* when no oracle call failed, after exactly k oracle calls); the registry
\* and the cache record hold it, the record carrying the current hash; the
\* success flag is untouched.  A passing candidate always ends the function
\* generated, and while attempts are still running nothing has been stored.
C5_RetrySuccess ==
    /\ Outcome = "generated" =>
          /\ run_test_success(obs.candidate, TestCode)
          /\ obs.verify_runs = obs.call[1].attempt
          /\ obs.oracle_failures = 0 => obs.oracle_calls = obs.verify_runs
          /\ get_implementation(Heap, obs.fn) = obs.candidate
          /\ registry[obs.fn].implementation = obs.candidate
          /\ Cache_get(Heap, obs.fn) =
                <<[hash |-> get_hash(registry[obs.fn]), implementation |-> obs.candidate]>>
          /\ obs.success = obs.success_before
    /\ (obs.candidate # None /\ run_test_success(obs.candidate, TestCode)) =>
          Outcome = "generated"
    /\ pc = "generate" =>
          /\ get_implementation(Heap, obs.fn) = obs.before_impl
          /\ Cache_get(Heap, obs.fn) = obs.before_record

\* wrong on attempt 1, right on attempt 2, a record of an older hash replaced
C5_Witness ==
    /\ Outcome = "generated"
    /\ obs.oracle_failures = 0
    /\ obs.oracle_calls = 2
    /\ obs.verify_runs = 2
    /\ obs.had_record
    /\ ~obs.hash_match

C7_Exhaustion ==
    /\ Outcome = "verify_failed" =>
          /\ obs.verify_runs = max_attempts
          /\ ~run_test_success(obs.candidate, TestCode)
          /\ obs.diagnostic = run_test_error(obs.candidate, TestCode)
          /\ obs.error_msg = obs.diagnostic
          /\ ~obs.success
          /\ PassFailed
    /\ (obs.verify_runs >= max_attempts /\ ~run_test_success(obs.candidate, TestCode)) =>
          Outcome = "verify_failed"

\* three failed candidates, the pass has returned false
C7_Witness ==
    /\ Outcome = "verify_failed"
    /\ obs.module_ret = <<FALSE>>
    /\ obs.error_msg = "Traceback: AssertionError"
    /\ obs.oracle_failures > 0

\* C8: when needs_generation is false for the function taken up, the oracle
\* and the harness are not run for it; if a cache record exists its
\* implementation is adopted into the registry and the success flag is left
\* as it was; if none exists the function is a reported failure and nothing
\* is stored.
C8_NotNeeded ==
    (obs.fn # <<>> /\ ~obs.needed) =>
        /\ obs.oracle_calls = 0
        /\ obs.verify_runs = 0
        /\ IF obs.had_record
           THEN /\ Outcome = "cached"
                /\ get_implementation(Heap, obs.fn) = obs.before_record[1].implementation
                /\ registry[obs.fn].implementation = obs.before_record[1].implementation
                /\ obs.success = obs.success_before
           ELSE /\ Outcome = "no_cache"
                /\ get_implementation(Heap, obs.fn) = obs.before_impl
                /\ ~obs.success
                /\ PassFailed

\* one pass in which f is frozen without a record and g is a cache hit
C8_Witness ==
    /\ obs.module_ret = <<FALSE>>
    /\ Len(obs.listed) = 2
    /\ obs.listed[1] \in DOMAIN obs.outcome
    /\ obs.outcome[obs.listed[1]] = "no_cache"
    /\ Outcome = "cached"
    /\ obs.fn = obs.listed[2]

\* C9: sibling isolation.  When a pass has returned, every function the
\* pass listed for the namespace was taken up exactly once, whatever
\* happened to its siblings.
C9_SiblingIsolation ==
    obs.module_ret # <<>> =>
        \A k \in 1..Len(obs.listed) :
            /\ obs.listed[k] \in DOMAIN obs.visits
            /\ obs.visits[obs.listed[k]] = 1

Succeeded(n) == n \in DOMAIN obs.outcome /\ obs.outcome[n] \in {"cached", "generated"}

AllSucceeded == \A k \in 1..Len(obs.listed) : Succeeded(obs.listed[k])

AllReturnedTrue == \A k \in 1..Len(obs.pkg_rets) : obs.pkg_rets[k][2]

\* C10 as stated: process_module returns true iff every function of the
\* namespace ended in success, and process_package returns true iff every
\* namespace of the tree returned true.
C10_ResultIsConjunction ==
    /\ obs.module_ret # <<>> => (obs.module_ret[1] <=> AllSucceeded)
    /\ obs.pkg_ret # <<>> => (obs.pkg_ret[1] <=> AllReturnedTrue)

\* C10, amended: process_module returns true iff the import of the
\* namespace did not raise and every function of the namespace ended in
\* success; process_package returns true iff the package imported as a
\* package and every namespace of the tree returned true; once the package
\* is imported every namespace of the tree is processed, in order, whatever
\* the earlier ones returned.
C10_ResultIsConjunctionAfterImport ==
    /\ obs.module_ret # <<>> =>
          (obs.module_ret[1] <=> (~obs.import_raised /\ AllSucceeded))
    /\ obs.pkg_ret # <<>> =>
          /\ obs.pkg_ret[1] <=> (~obs.package_failed /\ AllReturnedTrue)
          /\ IF obs.package_failed
             THEN obs.pkg_rets = <<>>
             ELSE [k \in 1..Len(obs.pkg_rets) |-> obs.pkg_rets[k][1]]
                     = find_modules(PackageName)
    /\ pc = "package" => (pkg.success <=> AllReturnedTrue)

\* the first namespace failed, the second was still processed and returned
\* true, the package pass returned false
C10_Witness ==
    /\ obs.pkg_ret = <<FALSE>>
    /\ obs.pkg_rets = << <<ModuleM, FALSE>>, <<ModuleN, TRUE>> >>

\* the persisted partition of a namespace, empty when it has no file
Partition(module_name) ==
    IF module_name_to_cache_file(module_name) \in DOMAIN disk
    THEN disk[module_name_to_cache_file(module_name)]
    ELSE EmptyDict

\* C11: every processing pass over a namespace calls Cache.save for it
\* exactly once, on every way the pass can end (all succeeded, some failed,
\* no functions found, an error during processing), so that every record
\* stored in the in-memory cache during the pass is in the persisted
\* partition when the pass returns.
C11_SaveOnEveryReturn ==
    obs.module_ret # <<>> =>
        /\ obs.saves = 1
        /\ \A n \in obs.stored :
              /\ n \in DOMAIN Partition(obs.module)
              /\ Partition(obs.module)[n] = cache[n]

\* the namespace a full name is declared in
OwnerOf == [n \in FullNames |-> parent_module(n)]

NamespaceOf(full_name) == OwnerOf[full_name]

\* the namespace one level up, of each module
ParentOf == [m \in WatchModules |-> parent_module(m)]

\* C12 as stated: the partition written by save(ns) holds only records of
\* functions declared in ns itself, none of any other namespace, its dotted
\* sub-namespaces included.
C12_OnlyOwnNamespace ==
    \A ns \in WatchModules :
        \A n \in DOMAIN Partition(ns) : NamespaceOf(n) = ns

\* C12 amended: the partition written by save(ns) holds only records whose
\* full name begins with ns followed by a dot (functions declared in ns or
\* in a dotted sub-namespace of ns), and no record of a namespace outside ns.
C12_OnlyPrefixedRecords ==
    \A ns \in WatchModules :
        \A n \in DOMAIN Partition(ns) : StartsWith(n, ns \o <<Dot>>)

\* the partition of p.m holds a record of its sub-namespace p.m.s, and the
\* partition of p.m.s was written while the in-memory cache held a record
\* of p.m, which it must not get
C12_Witness ==
    /\ \E n \in DOMAIN Partition(ModuleM) : NamespaceOf(n) # ModuleM
    /\ module_name_to_cache_file(ModuleS) \in DOMAIN disk
    /\ \E n \in DOMAIN cache : ~StartsWith(n, ModuleS \o <<Dot>>)

\* the step stored, for the function the pass has in hand, the candidate
\* that just passed verification, under the function's specification hash
VerifiedStore(n) ==
    /\ pc = "generate"
    /\ n = get_full_name(pass.functions[pass.i].module, pass.functions[pass.i].name)
    /\ n \in obs'.stored
    /\ obs'.outcome[n] = "generated"
    /\ run_test_success(obs'.candidate, gen.test_code)
    /\ cache'[n] = [hash |-> get_hash(registry[n]), implementation |-> obs'.candidate]

\* the step loaded a namespace whose persisted partition holds the record
LoadedFrom(n) ==
    \E m \in loaded_modules' \ loaded_modules :
        /\ n \in DOMAIN Partition(m)
        /\ cache'[n] = Partition(m)[n]

\* the in-memory record of n is new or differs after the step
RecordWritten(n) == n \notin DOMAIN cache \/ cache'[n] # cache[n]

\* C13 as stated: an in-memory cache record is created or changed only by
\* load reading a persisted partition or by the Orchestrator storing a
\* candidate that passed verification under the specification hash; the
\* Dispatcher and the inspection operation (like the registry operations
\* and failed attempts) never create or change a record.
C13_OnlyOrchestratorWrites ==
    [][/\ \A n \in DOMAIN cache' :
             RecordWritten(n) => VerifiedStore(n) \/ LoadedFrom(n)
       /\ disp' # NoDisp => \A n \in DOMAIN cache' : ~RecordWritten(n)]_vars

\* C13 amended: an in-memory cache record is created or changed only by
\* load copying it from a persisted partition (whoever calls load: the
\* Orchestrator, the Dispatcher or the inspection operation) or by the
\* Orchestrator storing a candidate that passed verification in the pass,
\* under the specification hash of the function it was generated for.
C13_WritesByLoadOrVerifiedStore ==
    [][\A n \in DOMAIN cache' :
          RecordWritten(n) => VerifiedStore(n) \/ LoadedFrom(n)]_vars

\* a call through the Dispatcher, in a process that ran no pass, has just
\* brought the record of the function from its partition into memory
C13_Witness ==
    /\ disp.fn # <<>>
    /\ disp.kind = "invoke"
    /\ obs.module = <<>>
    /\ disp.fn \in DOMAIN cache
    /\ disp.fn \in DOMAIN Partition(NamespaceOf(disp.fn))
    /\ cache[disp.fn] = Partition(NamespaceOf(disp.fn))[disp.fn]

\* the step is a call through the Dispatcher
Dispatched == disp' # NoDisp /\ disp'.kind = "invoke"

\* C14: cold-start dispatch.  load(ns) pushes the implementation of every
\* record of the persisted partition into the registry; and when a declared
\* function whose full name has a record in its namespace's partition is
\* invoked before that namespace was loaded in the process, the call
\* resolves that recorded implementation, and the call itself makes no
\* oracle call and no verification run.
C14_ColdStartDispatch ==
    [][/\ \A m \in loaded_modules' \ loaded_modules :
             \A n \in DOMAIN Partition(m) :
                \E m2 \in loaded_modules' \ loaded_modules :
                   /\ n \in DOMAIN Partition(m2)
                   /\ get_implementation(Heap', n) = Partition(m2)[n].implementation
       /\ (/\ Dispatched
           /\ NamespaceOf(disp'.fn) \notin loaded_modules
           /\ disp'.fn \in DOMAIN Partition(NamespaceOf(disp'.fn)))
          => /\ ~disp'.raised
             /\ disp'.implementation =
                   Partition(NamespaceOf(disp'.fn))[disp'.fn].implementation
             /\ obs'.oracle_calls = obs.oracle_calls
             /\ obs'.verify_runs = obs.verify_runs
             /\ pc' = pc /\ gen' = gen]_vars

\* in a process that ran no pass and generated nothing, a call has resolved
\* the implementation recorded in the partition
C14_Witness ==
    /\ disp.fn # <<>>
    /\ disp.kind = "invoke"
    /\ ~disp.raised
    /\ obs.module = <<>>
    /\ obs.oracle_calls = 0
    /\ needs_generation = EmptyDict
    /\ disp.fn \in DOMAIN Partition(NamespaceOf(disp.fn))
    /\ disp.implementation = Partition(NamespaceOf(disp.fn))[disp.fn].implementation

\* C15: dispatch without implementation.  A call of a declared function
\* fails with the NoImplementation error if and only if no implementation
\* resolves through the registry after the owning namespace's partition was
\* loaded and, when still absent, the parent namespace's partition one level
\* up; no grandparent partition is consulted, the parent's only when the
\* implementation is still absent, and a call that does not fail runs the
\* resolved implementation, never a default.
C15_NoImplementation ==
    [][Dispatched =>
        LET fn == disp'.fn
            owner == NamespaceOf(fn)
            parent == ParentOf[owner]
            resolved == get_implementation([implementations |-> implementations',
                                            registry |-> registry'], fn)
        IN /\ owner \in loaded_modules'
           /\ disp'.raised <=> ~Truthy(resolved)
           /\ disp'.raised => parent = <<>> \/ parent \in loaded_modules'
           /\ loaded_modules' \subseteq loaded_modules \cup {owner, parent}
           /\ parent \in loaded_modules' \ loaded_modules
                 => ~Truthy(get_implementation(Cache_load(Heap, owner), fn))
           /\ ~disp'.raised =>
                 /\ Truthy(disp'.implementation)
                 /\ disp'.implementation = resolved]_vars

\* a call of p.m.s.h has failed after the partitions of p.m.s and of p.m
\* were loaded, while the package's partition, not loaded, holds a record of h
C15_Witness ==
    /\ disp.fn = get_full_name(ModuleS, <<"h">>)
    /\ disp.kind = "invoke"
    /\ disp.raised
    /\ {ModuleS, ModuleM} \subseteq loaded_modules
    /\ PackageName \notin loaded_modules
    /\ disp.fn \in DOMAIN Partition(PackageName)

\* C16: load(namespace) is idempotent.  Once a namespace is loaded in a
\* process, a later load of it changes neither the in-memory cache, nor the
\* registry's implementations, nor the set of loaded namespaces, whatever
\* stores, saves, dispatches or registry clears happened in between: a call
\* through the Dispatcher or the inspection operation that loads only
\* loaded namespaces leaves all of them as they were, and so would a load
\* of any loaded namespace in the state the step leaves.
C16_LoadIdempotent ==
    [][/\ (disp' # NoDisp /\ loaded_modules' = loaded_modules) =>
             /\ cache' = cache
             /\ implementations' = implementations
             /\ registry' = registry
       /\ \A m \in loaded_modules' : Cache_load(Heap', m) = Heap']_vars

\* a call has failed for a function whose namespace is loaded and whose
\* persisted partition holds its record: the registry was cleared after the
\* load, and the load of the call read nothing
C16_Witness ==
    /\ disp.fn # <<>>
    /\ disp.kind = "invoke"
    /\ disp.raised
    /\ NamespaceOf(disp.fn) \in loaded_modules
    /\ disp.fn \in DOMAIN Partition(NamespaceOf(disp.fn))
    /\ disp.fn \in DOMAIN cache

\* the step is a change handler that cleared the namespace and did nothing
\* more (the reload raised)
ClearedOnly == obs'.cleared # <<>> /\ events # <<>> /\ events' = Tail(events)

\* C17: clearNamespace(ns) removes every registry entry, every stored
\* implementation, every needs-generation memo and the cache-loaded flag
\* whose full name is prefixed by ns: after the call get and
\* getImplementation return absent for each such name, needsGeneration
\* recomputes its decision, and the next load(ns) re-reads the persisted
\* partition.
C17_ClearNamespace ==
    [][ClearedOnly =>
        LET ns == obs'.cleared[1]
        IN /\ \A n \in FullNames : StartsWith(n, ns) =>
                 /\ n \notin DOMAIN registry'
                 /\ get_implementation(Heap', n) = None
                 /\ n \notin DOMAIN needs_generation'
           /\ \A m \in loaded_modules' : ~StartsWith(m, ns)
           /\ \A n \in DOMAIN Partition(ns) :
                 get_implementation(Cache_load(Heap', ns), n)
                    = Partition(ns)[n].implementation]_vars

\* C18: stale functions do not resurface.  After a reload of a namespace
\* (clearNamespace, re-declaration, orchestration pass and save) in which a
\* previously declared and cached function is no longer declared, the
\* function is absent from the registry entries, from the resolvable
\* implementations and from the partition written by the pass, and a later
\* load of the namespace, in the same or in a fresh process, does not bring
\* it back.
C18_StaleDoNotResurface ==
    (obs.event # <<>> /\ obs.module_ret # <<>> /\ obs.saves = 1) =>
        \A n \in obs.removed :
            /\ n \notin DOMAIN registry
            /\ get_implementation(Heap, n) = None
            /\ n \notin DOMAIN Partition(obs.module)
            /\ get_implementation(Cache_load(Heap, obs.module), n) = None
            /\ get_implementation(Cache_load(FreshProcess(disk), obs.module), n) = None

\* C19: the Dispatcher never observes a half-cleared registry.  While a
\* change event is being reconciled for a namespace, a call of a function of
\* that namespace that resolved before the event and is declared again
\* unchanged never fails with NoImplementation and never runs between
\* clearNamespace and the end of the orchestration pass.
C19_DispatchNeverSeesHalfCleared ==
    (/\ disp.fn # <<>>
     /\ disp.kind = "invoke"
     /\ disp.fn \in obs.kept
     /\ obs.event = <<NamespaceOf(disp.fn)>>)
    => /\ ~disp.raised
       /\ NamespaceOf(disp.fn) \notin {reconciling[k] : k \in 1..Len(reconciling)}

\* the step hands the next change event of the queue to the handler
HandlerStarts == events # <<>> /\ events' = Tail(events)

\* C20: change events for the same namespace serialize.  At no time are two
\* reconciling sequences for one namespace in progress at once, and the
\* handler of the next change event starts only when the one before has
\* returned to idle.
C20_EventsSerialize ==
    [][/\ \A i, j \in 1..Len(reconciling') :
             i # j => reconciling'[i] # reconciling'[j]
       /\ HandlerStarts => reconciling = <<>> /\ pc = "idle"]_vars

\* a second change event for a namespace waits in the queue while the
\* first is being reconciled
C20_Witness ==
    /\ reconciling # <<>>
    /\ events # <<>>
    /\ Head(events) = reconciling[1]
    /\ pc # "idle"

\* the heap a reload of ns leaves when its pass has listed the functions:
\* the namespace cleared, then re-declared by the code of the file, then
\* the load the pass begins with
ReloadedHeap(ns, code) ==
    Cache_load(run_declarations(clear_module(Heap, ns), code, 1), ns)

\* the heap without sys.modules
Registered(H) == [H EXCEPT !.sys_modules = {}]

Faults(implementation, test_code) ==
    \/ ~implementation.compiles
    \/ \E k \in 1..Len(test_code) : implementation.does[test_code[k]] # "right"

\* C22: runTest outcome.  For every candidate and assertion block, a fault
\* raised while the unit is built or executed (a candidate that does not
\* compile, a failed assertion, an error in the body, a fault in a call
\* through the self-reference) gives pass = false with a non-empty
\* diagnostic and never leaves run_test; an execution without fault gives
\* pass = true with no diagnostic.
C22_RunTestOutcome ==
    test_run # NoRun =>
        /\ test_run.result.propagated = None
        /\ Faults(test_run.implementation, test_run.test_code) =>
              /\ ~test_run.result.success
              /\ Truthy(test_run.result.error_msg)
        /\ ~Faults(test_run.implementation, test_run.test_code) =>
              /\ test_run.result.success
              /\ test_run.result.error_msg = None

\* what the contract gives for needsGeneration(n, c) in the current state
Contract(n, c) ==
    IF n \in DOMAIN needs_generation THEN needs_generation[n]
    ELSE IF n \notin DOMAIN registry THEN FALSE
    ELSE IF registry[n].frozen THEN FALSE
    ELSE IF c = None THEN TRUE
    ELSE get_hash(registry[n]) # c

\* the cached hashes a call may be given
CachedHashes ==
    {None} \cup {get_function_hash(d, sig) : d \in Docstrings, sig \in Signatures}

\* the step takes up the next function of the pass
TakenUp == pc = "module" /\ obs'.visits # obs.visits

\* the step clears a namespace n is under, or starts a new process
ClearedIn(n) ==
    /\ pc = "idle"
    /\ \/ \E ns \in ModuleNames \cup WatchModules :
             /\ StartsWith(n, ns)
             /\ \A k \in DOMAIN needs_generation' : ~StartsWith(k, ns)
       \/ needs_generation' = EmptyDict /\ sys_modules' = {}

\* C23: needsGeneration(fullName, cachedHash) returns the memoized decision
\* when there is one; otherwise false for an unregistered or frozen name,
\* true when cachedHash is absent, and (hash # cachedHash) otherwise; a
\* decision that was not memoized is recorded as the memo, and a memo stays
\* as it is until clearNamespace removes it.
C23_NeedsGeneration ==
    [][/\ \A n \in FullNames : \A c \in CachedHashes :
             /\ needs_generation_value(Heap, n, c) = Contract(n, c)
             /\ needs_generation_memo(Heap, n, c).needs_generation =
                   IF n \in DOMAIN needs_generation THEN needs_generation
                   ELSE Put(needs_generation, n, Contract(n, c))
       /\ TakenUp =>
             LET n == obs'.fn
                 c == IF n \in DOMAIN cache THEN cache[n].hash ELSE None
             IN /\ obs'.needed = Contract(n, c)
                /\ n \in DOMAIN needs_generation'
                /\ needs_generation'[n] = Contract(n, c)
       /\ \A n \in DOMAIN needs_generation :
             \/ n \in DOMAIN needs_generation' /\ needs_generation'[n] = needs_generation[n]
             \/ ClearedIn(n)]_vars

\* a function was taken up with a cache record under its current hash and
\* the memo of an earlier pass was returned: generation needed
C23_Witness ==
    /\ obs.fn # <<>>
    /\ obs.visits # EmptyDict
    /\ obs.had_record
    /\ obs.hash_match
    /\ ~obs.frozen
    /\ obs.needed
    /\ obs.fn \in DOMAIN needs_generation
    /\ needs_generation[obs.fn]

\* specification texts and signatures a declaration can be changed to
OtherDocstrings == Docstrings \cup {"d1|(fn, n)", ""}
OtherSignatures == Signatures \cup {"(fn, n, m)", "(fn)"}

\* C24: the specification hash is a function of the pair (specification
\* text, signature) only.  FunctionMetadata.get_hash and get_function_hash
\* agree on every registered function; changing the text alone or the
\* signature alone changes the hash; changing the frozen flag, the
\* namespace, the name or the source with its assertion block leaves it
\* as it is.
C24_HashOfTextAndSignature ==
    \A n \in DOMAIN registry :
        LET metadata == registry[n]
        IN /\ get_hash(metadata) =
                 get_function_hash(metadata.docstring, metadata.signature)
           /\ \A d \in OtherDocstrings :
                 d # metadata.docstring =>
                    /\ get_hash([metadata EXCEPT !.docstring = d]) # get_hash(metadata)
                    /\ get_function_hash(d, metadata.signature) # get_hash(metadata)
           /\ \A sig \in OtherSignatures :
                 sig # metadata.signature =>
                    /\ get_hash([metadata EXCEPT !.signature = sig]) # get_hash(metadata)
                    /\ get_function_hash(metadata.docstring, sig) # get_hash(metadata)
           /\ \A frozen \in BOOLEAN : \A source \in Sources :
              \A module \in ModuleNames \cup WatchModules :
                 get_hash([metadata EXCEPT !.frozen = frozen, !.source = source,
                                           !.module = module]) = get_hash(metadata)

\* a function that was generated and cached is taken up again after it was
\* re-declared as frozen: the hash of its record still equals its hash
C24_Witness ==
    /\ obs.fn \in DOMAIN registry
    /\ registry[obs.fn].frozen
    /\ obs.frozen
    /\ obs.had_record
    /\ obs.hash_match
    /\ cache[obs.fn].hash = get_hash(registry[obs.fn])

\* the partition of a namespace is missing, or Cache.load fails on it
NoPartition(m) ==
    LET cache_file == module_name_to_cache_file(m)
    IN \/ cache_file \notin DOMAIN disk
       \/ disk[cache_file] = Unparsable
       \/ \E n \in DOMAIN disk[cache_file] : disk[cache_file][n] = NotARecord

\* C25: a missing or unreadable partition is treated as no cache: the load
\* of such a namespace raises nothing and marks it loaded while the cache
\* records and the registry's implementations stay as they were, and the
\* pass goes on, taking every function without a record in memory as
\* uncached (it needs generation unless it is frozen)
C25_NoPartitionIsNoCache ==
    [][/\ (/\ loaded_modules' \ loaded_modules # {}
           /\ \A m \in loaded_modules' \ loaded_modules : NoPartition(m))
          => /\ cache' = cache
             /\ implementations' = implementations
             /\ \A n \in DOMAIN registry' :
                   registry'[n].implementation =
                       IF n \in DOMAIN registry THEN registry[n].implementation
                       ELSE None
             /\ disp' = NoDisp =>
                   /\ obs'.module \in loaded_modules'
                   /\ ~obs'.import_raised
                   /\ (pc' = "module" \/ obs'.module_ret = <<TRUE>>)
       /\ (/\ TakenUp
           /\ NoPartition(pass.module_name)
           /\ obs'.fn \notin DOMAIN cache)
          => /\ ~obs'.had_record
             /\ obs'.needed <=> ~obs'.frozen]_vars

\* C26: the command line exits with a non-zero status whenever the pass
\* over the namespace or the namespace tree returned false (a function failed
\* generation or verification), and with status zero only when every
\* function succeeded
C26_ExitStatus ==
    /\ (pc = "idle" /\ obs.module_ret # <<>> /\ obs.pkg_rets = <<>>)
          => /\ (~obs.module_ret[1] /\ ~AllSucceeded)
                    => main_exit(TRUE, obs.module_ret[1]) # 0
             /\ main_exit(TRUE, obs.module_ret[1]) = 0 => AllSucceeded
    /\ (obs.pkg_ret # <<>> /\ ~AllSucceeded)
          => main_exit(TRUE, obs.pkg_ret[1]) # 0

\* the step is one of the retry loop, not of the file system
LoopStep == pc = "generate" /\ <<pc, gen, obs>>' # <<pc, gen, obs>>

\* the step is an oracle call of the retry loop
OracleCalled == pc = "generate" /\ obs'.oracle_calls = obs.oracle_calls + 1

\* the step runs the verification harness
Verified == obs'.verify_runs = obs.verify_runs + 1

\* ... and the candidate passes
Passed == Verified /\ run_test_success(obs'.candidate, gen.test_code)

\* the processing of the function in hand has ended as failed
Failed == Outcome \in {"oracle_failed", "verify_failed"}

\* the retry loop is left with the function done or failed
LoopLeft == pc # "generate" /\ (Outcome = "generated" \/ Failed)

C28_DispatchOnlyCurrent ==
    (/\ disp # NoDisp
     /\ disp.kind = "invoke"
     /\ ~disp.raised
     /\ ~registry[disp.fn].frozen)
        => /\ disp.fn \in DOMAIN cache
           /\ cache[disp.fn].implementation = disp.implementation
           /\ cache[disp.fn].hash =
                  get_function_hash(registry[disp.fn].docstring,
                                    registry[disp.fn].signature)

\* the candidates the verification harness rejects
FailedTexts ==
    {c \in Candidates : ~run_test_success(c, extract_test_code("def:assert"))}

\* what is stored under a full name: the implementation get_implementation
\* resolves and the cache record
Stored(H, n) == <<get_implementation(H, n), Cache_get(H, n)>>

\* C29: a failed generation leaves stored state untouched: when the
\* processing of a function has ended in failure, the registry's
\* implementation and the cache record of its name are what they were when
\* it was taken up; during a pass the implementation and the record of a
\* name change only when that function's processing ends in success; and no
\* candidate that failed verification is visible to get_implementation, in
\* the cache or in a persisted partition
C29_FailureWritesNothing ==
    /\ [](Failed => Stored(Heap, obs.fn) = <<obs.before_impl, obs.before_record>>)
    /\ [][(pc = "module" \/ pc = "generate")
            => \A n \in FullNames :
                  Stored(Heap, n)' # Stored(Heap, n)
                     => /\ n = obs'.fn
                        /\ Outcome' \in {"cached", "generated"}]_vars
    /\ [](/\ \A n \in FullNames : get_implementation(Heap, n) \notin FailedTexts
          /\ \A n \in DOMAIN cache : cache[n].implementation \notin FailedTexts
          /\ \A file \in DOMAIN disk : \A n \in DOMAIN disk[file] :
                disk[file][n].implementation \notin FailedTexts)

\* a function that had an implementation and a record failed its
\* regeneration, and the pass is over
C29_Witness ==
    /\ Outcome = "verify_failed"
    /\ obs.before_impl = "good"
    /\ obs.before_record # <<>>
    /\ Stored(Heap, obs.fn) = <<"good", obs.before_record>>
    /\ obs.module_ret # <<>>

\* the state in memory for n was loaded from the partition of its own
\* namespace, or stored by the pass last run in this process
Settled(n) ==
    /\ n \in DOMAIN cache
    /\ \/ n \in obs.stored
       \/ /\ OwnerOf[n] \in loaded_modules
          /\ n \in DOMAIN Partition(OwnerOf[n])
          /\ Partition(OwnerOf[n])[n] = cache[n]

\* C30: loading a partition never replaces newer state: when a namespace
\* not loaded yet is loaded, the cache record and the implementation of a
\* function that was loaded from its own partition or stored by the
\* processing pass in this process stay as they are
C30_LoadReplacesNothing ==
    [][loaded_modules' \ loaded_modules # {}
         => \A n \in FullNames :
               Settled(n) => Stored(Heap, n)' = Stored(Heap, n)]_vars

\* the module a full name of the cleared registry belongs to
ModuleOf == [n \in ClearNames |->
                (CHOOSE d \in ClearDecls : get_full_name(d[1], d[2]) = n)[1]]

\* the name belongs neither to the namespace nor to a dotted sub-namespace
Outside(n, ns) == ModuleOf[n] # ns /\ ~StartsWith(ModuleOf[n], ns \o <<Dot>>)

\* the map holds the same for the name before and after the step
SameIn(map, n) ==
    /\ (n \in DOMAIN map) <=> (n \in DOMAIN map')
    /\ n \in DOMAIN map => map'[n] = map[n]

\* the names the step takes out of the map
TakenOut(map) == DOMAIN map \ DOMAIN map'

\* C31: clearNamespace(ns) leaves other namespaces unchanged: the registry
\* entry, the stored implementation and the needs-generation memo of every
\* function whose namespace is neither ns nor a dotted sub-namespace of ns
\* (a sibling whose name merely starts with the same characters included)
\* are the same before and after the call, and the same names are removed
\* from the three maps
C31_ClearLeavesOthers ==
    [][obs'.cleared # <<>> =>
        LET ns == obs'.cleared[1]
        IN /\ \A n \in ClearNames : Outside(n, ns) =>
                 /\ SameIn(registry, n)
                 /\ SameIn(implementations, n)
                 /\ SameIn(needs_generation, n)
           /\ \A n \in ClearNames :
                 /\ n \in DOMAIN registry \cap DOMAIN implementations
                       => (n \in TakenOut(registry) <=> n \in TakenOut(implementations))
                 /\ n \in DOMAIN registry \cap DOMAIN needs_generation
                       => (n \in TakenOut(registry) <=> n \in TakenOut(needs_generation))
                 /\ n \in DOMAIN implementations \cap DOMAIN needs_generation
                       => (n \in TakenOut(implementations)
                              <=> n \in TakenOut(needs_generation))]_vars

\* a call of the declared function would get an implementation
Resolvable(H, decl) == ~pararun(H, decl[1], decl[2]).raised

\* C32: a failed reload does not lose dispatchability.  When the
\* re-declaration raises in the handler of a change event for a namespace,
\* every function of the namespace that the Dispatcher resolved before the
\* event and whose cache record is still there is resolved after the watcher
\* is back to idle; and when a regeneration fails in the pass of the reload,
\* the functions that resolved before and are declared unchanged are still
\* resolved once the pass is over.
C32_FailedReloadKeepsDispatch ==
    /\ [][ClearedOnly =>
            \A d \in AllDecls :
                (/\ d[1] = obs'.cleared[1]
                 /\ Resolvable(Heap, d)
                 /\ get_full_name(d[1], d[2]) \in DOMAIN cache')
                    => Resolvable(Heap', d)]_vars
    /\ []((/\ obs.event # <<>> /\ obs.module_ret # <<>> /\ pc = "idle"
           /\ \E n \in DOMAIN obs.outcome :
                 obs.outcome[n] \in {"oracle_failed", "verify_failed"})
              => \A d \in AllDecls :
                    (/\ get_full_name(d[1], d[2]) \in obs.kept
                     /\ get_full_name(d[1], d[2]) \in DOMAIN cache)
                        => Resolvable(Heap, d))

\* C33: distinct namespaces have distinct persisted partitions (the mapping
\* from namespace to partition file is injective): save(ns1) leaves the
\* partition of every other namespace ns2 as it was, and load(ns1) reads
\* only what was saved for ns1, records of functions of ns1
C33_DistinctPartitions ==
    /\ [][obs'.saves = 1 =>
            \A ns2 \in FileSpaces \ {obs'.module} :
                Partition(ns2)' = Partition(ns2)]_vars
    /\ [](\A ns1 \in FileSpaces :
            \A n \in DOMAIN Cache_load(FreshProcess(disk), ns1).cache :
                StartsWith(n, ns1 \o <<Dot>>))

====
